---- MODULE Spec2Model ----
(***************************************************************************)
(* Model of the learning chatbot in src/src/components/test class.py.      *)
(*                                                                         *)
(* Strings are sequences of one-character strings, so that strip() and     *)
(* lower() are computed character by character.  The storage file          *)
(* chat_memory.json is a sequence of JSON tokens, parsed by JsonLoad.      *)
(* Python values are records tagged with their type in the field kind.     *)
(* One action models the lines of the script between two blocking reads.   *)
(***************************************************************************)
EXTENDS Integers, Sequences, FiniteSets, TLC

VARIABLES
    fileExists,   \* os.path.exists(BRAIN)
    fileText,     \* the tokens of chat_memory.json
    brain,        \* the global brain
    user,         \* the global user (line 15)
    teach,        \* the global teach (line 24)
    pc,           \* where the script stands
    exc,          \* the uncaught exception that ended the script, or "none"
    stdinLine,    \* the line the last input() call returned
    printed,      \* what the last step wrote to stdout
    taught        \* history: the <<phrase, response>> pairs stored by line 26

vars == <<fileExists, fileText, brain, user, teach, pc, exc, stdinLine, printed, taught>>

-----------------------------------------------------------------------------
(* Bounds *)

\* whitespace characters typed on either side of a word
MaxPad == 1

\* length of the strings normalization is tried on
MaxStrLen == 3

-----------------------------------------------------------------------------
(* Strings *)

Whitespace == {" ", "\t"}

\* str.lower() on one character of the alphabet used here
LowerChar(c) ==
    CASE c = "H" -> "h"
      [] c = "I" -> "i"
      [] c = "O" -> "o"
      [] c = "Q" -> "q"
      [] c = "T" -> "t"
      [] c = "U" -> "u"
      [] c = "Y" -> "y"
      [] OTHER -> c

UpperChar(c) ==
    CASE c = "h" -> "H"
      [] c = "i" -> "I"
      [] c = "o" -> "O"
      [] c = "q" -> "Q"
      [] c = "t" -> "T"
      [] c = "u" -> "U"
      [] c = "y" -> "Y"
      [] OTHER -> c

Lower(s) == [i \in 1..Len(s) |-> LowerChar(s[i])]

Upper(s) == [i \in 1..Len(s) |-> UpperChar(s[i])]

Capital(s) == [i \in 1..Len(s) |-> IF i = 1 THEN UpperChar(s[i]) ELSE s[i]]

RECURSIVE LStrip(_)
LStrip(s) ==
    IF s = <<>> \/ Head(s) \notin Whitespace THEN s ELSE LStrip(Tail(s))

RECURSIVE RStrip(_)
RStrip(s) ==
    IF s = <<>> \/ s[Len(s)] \notin Whitespace
    THEN s
    ELSE RStrip(SubSeq(s, 1, Len(s) - 1))

\* strip() taking one whitespace character off each end, not all of them
StripOnce(s) ==
    LET l == IF s # <<>> /\ Head(s) \in Whitespace THEN Tail(s) ELSE s IN
    IF l # <<>> /\ l[Len(l)] \in Whitespace THEN SubSeq(l, 1, Len(l) - 1) ELSE l

Strip(s) == RStrip(LStrip(s))

\* line 15 without .lower()
StripOnly(s) == Strip(s)

\* line 15 without .strip()
LowerOnly(s) == Lower(s)

\* line 15: input("You:").strip().lower()
Normalize(s) == Lower(Strip(s))

QuitWord == <<"q", "u", "i", "t">>

\* line 16 comparing with "exit" in place of "quit"
IsExit(u) == Lower(u) = <<"e", "x", "i", "t">>

\* line 16: user.lower() == "quit"
IsQuit(u) == Lower(u) = QuitWord

-----------------------------------------------------------------------------
(* Python values *)

PyStr(s) == [kind |-> "str", s |-> s]
PyInt(n) == [kind |-> "int", n |-> n]
PyNone == [kind |-> "NoneType"]
PyList(items) == [kind |-> "list", items |-> items]
PyDict(map) == [kind |-> "dict", map |-> map]

\* the name brain before line 7 or line 9 has bound it
Unbound == [kind |-> "unbound"]

\* a string not yet assigned
NoStr == <<>>

EmptyMap == <<>>

Returns(v) == [ok |-> TRUE, val |-> v]
Raises(e) == [ok |-> FALSE, exc |-> e]

\* d[k] = v on a dict's mapping
MapSet(map, k, v) ==
    [x \in DOMAIN map \cup {k} |-> IF x = k THEN v ELSE map[x]]

\* sub occurs in s as a contiguous run of characters
IsSubstring(sub, s) ==
    \E i \in 0..(Len(s) - Len(sub)) : SubSeq(s, i + 1, i + Len(sub)) = sub

\* len(v), line 11
PyLen(v) ==
    CASE v.kind = "dict" -> Returns(Cardinality(DOMAIN v.map))
      [] v.kind = "list" -> Returns(Len(v.items))
      [] v.kind = "str" -> Returns(Len(v.s))
      [] OTHER -> Raises("TypeError")

\* u in v, line 19, for a string u
PyContains(v, u) ==
    CASE v.kind = "dict" -> Returns(u \in DOMAIN v.map)
      [] v.kind = "list" ->
            Returns(\E i \in 1..Len(v.items) : v.items[i] = PyStr(u))
      [] v.kind = "str" -> Returns(IsSubstring(u, v.s))
      [] OTHER -> Raises("TypeError")

\* v[u], line 20, for a string u
PyGetItem(v, u) ==
    CASE v.kind = "dict" ->
            IF u \in DOMAIN v.map THEN Returns(v.map[u]) ELSE Raises("KeyError")
      [] OTHER -> Raises("TypeError")

\* line 26 storing teach.strip() in place of teach
PySetItemStripped(v, u, t) ==
    CASE v.kind = "dict" -> Returns(PyDict(MapSet(v.map, u, PyStr(Strip(t)))))
      [] OTHER -> Raises("TypeError")

\* v[u] = t, line 26, for strings u and t
PySetItem(v, u, t) ==
    CASE v.kind = "dict" -> Returns(PyDict(MapSet(v.map, u, PyStr(t))))
      [] OTHER -> Raises("TypeError")

-----------------------------------------------------------------------------
(* The storage file and json.load *)

Tok(t) == [t |-> t, s |-> <<>>, n |-> 0]
StrTok(s) == [t |-> "str", s |-> s, n |-> 0]
NumTok(n) == [t |-> "num", s |-> <<>>, n |-> n]

Parsed(v, next) == [ok |-> TRUE, val |-> v, next |-> next]
NoParse == [ok |-> FALSE]

IsTok(toks, i, t) == i <= Len(toks) /\ toks[i].t = t

RECURSIVE ParseValue(_, _)
RECURSIVE ParseItems(_, _, _)
RECURSIVE ParseMembers(_, _, _)

\* one JSON value starting at token i
ParseValue(toks, i) ==
    IF i > Len(toks) THEN NoParse
    ELSE CASE toks[i].t = "str" -> Parsed(PyStr(toks[i].s), i + 1)
           [] toks[i].t = "num" -> Parsed(PyInt(toks[i].n), i + 1)
           [] toks[i].t = "null" -> Parsed(PyNone, i + 1)
           [] toks[i].t = "[" ->
                 IF IsTok(toks, i + 1, "]")
                 THEN Parsed(PyList(<<>>), i + 2)
                 ELSE ParseItems(toks, i + 1, <<>>)
           [] toks[i].t = "{" ->
                 IF IsTok(toks, i + 1, "}")
                 THEN Parsed(PyDict(EmptyMap), i + 2)
                 ELSE ParseMembers(toks, i + 1, EmptyMap)
           [] OTHER -> NoParse

\* the elements of an array, the first at token i, up to its "]"
ParseItems(toks, i, acc) ==
    LET r == ParseValue(toks, i) IN
    IF ~r.ok THEN NoParse
    ELSE IF IsTok(toks, r.next, ",")
         THEN ParseItems(toks, r.next + 1, Append(acc, r.val))
         ELSE IF IsTok(toks, r.next, "]")
              THEN Parsed(PyList(Append(acc, r.val)), r.next + 1)
              ELSE NoParse

\* the members of an object, the first at token i, up to its "}"; a
\* repeated key keeps its last value
ParseMembers(toks, i, acc) ==
    IF ~(IsTok(toks, i, "str") /\ IsTok(toks, i + 1, ":")) THEN NoParse
    ELSE LET r == ParseValue(toks, i + 2) IN
         IF ~r.ok THEN NoParse
         ELSE IF IsTok(toks, r.next, ",")
              THEN ParseMembers(toks, r.next + 1, MapSet(acc, toks[i].s, r.val))
              ELSE IF IsTok(toks, r.next, "}")
                   THEN Parsed(PyDict(MapSet(acc, toks[i].s, r.val)), r.next + 1)
                   ELSE NoParse

\* json.load(f), line 7: the whole text is one JSON value
JsonLoad(toks) ==
    LET r == ParseValue(toks, 1) IN
    IF r.ok /\ r.next = Len(toks) + 1
    THEN Returns(r.val)
    ELSE Raises("JSONDecodeError")

-----------------------------------------------------------------------------
(* What the environment supplies: storage files and typed lines *)

Spaces(n) == [i \in 1..n |-> " "]
Tabs(n) == [i \in 1..n |-> "\t"]

\* s with l spaces before it and r tabs after it
Pad(l, s, r) == Spaces(l) \o s \o Tabs(r)

Casings(w) == {w, Upper(w), Capital(w)}

\* the lines a user can type that strip and lowercase to w
Variants(w) == {Pad(l, c, r) : l \in 0..MaxPad, r \in 0..MaxPad, c \in Casings(w)}

HiWord == <<"h", "i">>
YoWord == <<"y", "o">>

\* the lines that are "quit" in some casing, with whitespace around it
QuitLines == Variants(QuitWord)

\* lines typed at the "You:" prompt
YouLines == UNION {Variants(w) : w \in {QuitWord, HiWord, <<>>}}

\* lines typed at the "Can you teach me?" prompt
TeachLines == QuitLines \cup {<<"Y", "o", " ">>}

\* {}
DocEmpty == <<Tok("{"), Tok("}")>>

\* {"hi": "Yo "}
DocHi == <<Tok("{"), StrTok(HiWord), Tok(":"), StrTok(<<"Y", "o", " ">>), Tok("}")>>

\* {"quit": "bye", " Hi": "yo"}
DocQuitAndRawKey ==
    <<Tok("{"), StrTok(QuitWord), Tok(":"), StrTok(<<"b", "y", "e">>), Tok(","),
      StrTok(<<" ", "H", "i">>), Tok(":"), StrTok(YoWord), Tok("}")>>

\* {"hi": 1}
DocNumberValue == <<Tok("{"), StrTok(HiWord), Tok(":"), NumTok(1), Tok("}")>>

\* ["hi", 2]
DocList == <<Tok("["), StrTok(HiWord), Tok(","), NumTok(2), Tok("]")>>

\* 7
DocNumber == <<NumTok(7)>>

\* "quit hi"
DocString == <<StrTok(QuitWord \o <<" ">> \o HiWord)>>

\* null
DocNull == <<Tok("null")>>

WellFormedDocs ==
    {DocEmpty, DocHi, DocQuitAndRawKey, DocNumberValue, DocList, DocNumber,
     DocString, DocNull}

\* a file cut short while it was written
Truncations(doc) == {SubSeq(doc, 1, n) : n \in 0..(Len(doc) - 1)}

\* {"hi" "Yo "}: the colon is missing
DocNoColon == <<Tok("{"), StrTok(HiWord), StrTok(<<"Y", "o", " ">>), Tok("}")>>

\* {"hi": "Yo "}}: text after the value
DocExtraData == Append(DocHi, Tok("}"))

MalformedDocs ==
    Truncations(DocHi) \cup Truncations(DocList) \cup {DocNoColon, DocExtraData}

-----------------------------------------------------------------------------
(* The script *)

Line(text) == [text |-> text]
LineWith(text, v) == [text |-> text, arg |-> v]

Init ==
    /\ fileExists \in BOOLEAN
    /\ fileText \in (IF fileExists THEN WellFormedDocs \cup MalformedDocs ELSE {<<>>})
    /\ brain = Unbound
    /\ user = NoStr
    /\ teach = NoStr
    /\ pc = "Start"
    /\ exc = "none"
    /\ stdinLine = NoStr
    /\ printed = <<>>
    /\ taught = {}

\* an uncaught exception: the traceback goes to stderr and the exit code is 1
Crash(e, out) ==
    /\ pc' = "Error"
    /\ exc' = e
    /\ printed' = out

\* the same with the exception of line 7 swallowed: a broken file reads as {}
LoadBrainForgiving ==
    IF fileExists /\ JsonLoad(fileText).ok
    THEN JsonLoad(fileText)
    ELSE Returns(PyDict(EmptyMap))

\* the same without the test of line 5: open() raises when there is no file
LoadBrainNoExistsTest ==
    IF fileExists THEN JsonLoad(fileText) ELSE Raises("FileNotFoundError")

\* lines 5-9: the value brain is bound to, or the exception raised
LoadBrain ==
    IF fileExists THEN JsonLoad(fileText) ELSE Returns(PyDict(EmptyMap))

\* lines 5-9
Load ==
    /\ pc = "Start"
    /\ LET r == LoadBrain IN
       IF r.ok
       THEN /\ brain' = r.val
            /\ pc' = "Loaded"
            /\ UNCHANGED <<exc, printed>>
       ELSE /\ Crash(r.exc, <<>>)
            /\ UNCHANGED brain
    /\ UNCHANGED <<fileExists, fileText, user, teach, stdinLine, taught>>

\* lines 11-12
Banner ==
    /\ pc = "Loaded"
    /\ LET n == PyLen(brain) IN
       IF n.ok
       THEN /\ printed' = <<LineWith("Memories Loaded", PyInt(n.val)),
                            Line("hey, teach me how to talk.  type quit to exit")>>
            /\ pc' = "AwaitingInput"
            /\ UNCHANGED exc
       ELSE Crash(n.exc, <<>>)
    /\ UNCHANGED <<fileExists, fileText, brain, user, teach, stdinLine, taught>>

\* lines 15-23 with brain.pop(user) in place of brain[user] at line 20
ReadInputPop(line) ==
    /\ pc = "AwaitingInput"
    /\ stdinLine' = line
    /\ user' = Normalize(line)
    /\ IF IsQuit(user')
       THEN /\ pc' = "Exit"
            /\ printed' = <<Line("You:")>>
            /\ UNCHANGED <<exc, brain>>
       ELSE LET found == PyContains(brain, user') IN
            IF ~found.ok THEN Crash(found.exc, <<Line("You:")>>) /\ UNCHANGED brain
            ELSE IF found.val
                 THEN LET got == PyGetItem(brain, user') IN
                      IF got.ok
                      THEN /\ printed' = <<Line("You:"), LineWith("Bot:", got.val)>>
                           /\ pc' = "AwaitingInput"
                           /\ brain' = PyDict([k \in DOMAIN brain.map \ {user'} |-> brain.map[k]])
                           /\ UNCHANGED exc
                      ELSE Crash(got.exc, <<Line("You:")>>) /\ UNCHANGED brain
                 ELSE /\ printed' = <<Line("You:"), Line("Bot: I don't know what to say")>>
                      /\ pc' = "Teach"
                      /\ UNCHANGED <<exc, brain>>
    /\ UNCHANGED <<fileExists, fileText, teach, taught>>

\* lines 15-23 without the continue of line 21: a known phrase is answered
\* and then taught again
ReadInputNoContinue(line) ==
    /\ pc = "AwaitingInput"
    /\ stdinLine' = line
    /\ user' = Normalize(line)
    /\ IF IsQuit(user')
       THEN /\ pc' = "Exit"
            /\ printed' = <<Line("You:")>>
            /\ UNCHANGED exc
       ELSE LET found == PyContains(brain, user') IN
            IF ~found.ok THEN Crash(found.exc, <<Line("You:")>>)
            ELSE IF found.val
                 THEN LET got == PyGetItem(brain, user') IN
                      IF got.ok
                      THEN /\ printed' = <<Line("You:"), LineWith("Bot:", got.val),
                                           Line("Bot: I don't know what to say")>>
                           /\ pc' = "Teach"
                           /\ UNCHANGED exc
                      ELSE Crash(got.exc, <<Line("You:")>>)
                 ELSE /\ printed' = <<Line("You:"), Line("Bot: I don't know what to say")>>
                      /\ pc' = "Teach"
                      /\ UNCHANGED exc
    /\ UNCHANGED <<fileExists, fileText, brain, teach, taught>>

\* lines 15-23, with input() returning line
ReadInput(line) ==
    /\ pc = "AwaitingInput"
    /\ stdinLine' = line
    /\ user' = Normalize(line)
    /\ IF IsQuit(user')
       THEN /\ pc' = "Exit"
            /\ printed' = <<Line("You:")>>
            /\ UNCHANGED exc
       ELSE LET found == PyContains(brain, user') IN
            IF ~found.ok THEN Crash(found.exc, <<Line("You:")>>)
            ELSE IF found.val
                 THEN LET got == PyGetItem(brain, user') IN
                      IF got.ok
                      THEN /\ printed' = <<Line("You:"), LineWith("Bot:", got.val)>>
                           /\ pc' = "AwaitingInput"
                           /\ UNCHANGED exc
                      ELSE Crash(got.exc, <<Line("You:")>>)
                 ELSE /\ printed' = <<Line("You:"), Line("Bot: I don't know what to say")>>
                      /\ pc' = "Teach"
                      /\ UNCHANGED exc
    /\ UNCHANGED <<fileExists, fileText, brain, teach, taught>>

RECURSIVE DumpMembers(_, _)
\* the members of a table as JSON tokens
DumpMembers(map, keys) ==
    IF keys = {} THEN <<>>
    ELSE LET k == CHOOSE x \in keys : TRUE
             v == IF map[k].kind = "str" THEN StrTok(map[k].s) ELSE NumTok(map[k].n)
         IN <<StrTok(k), Tok(":"), v>>
            \o (IF keys = {k} THEN <<>> ELSE <<Tok(",")>> \o DumpMembers(map, keys \ {k}))

\* json.dump of a table
JsonDumpTable(v) == <<Tok("{")>> \o DumpMembers(v.map, DOMAIN v.map) \o <<Tok("}")>>

\* lines 24-27 followed by a save of the table to BRAIN
TeachInputAndSave(line) ==
    /\ pc = "Teach"
    /\ stdinLine' = line
    /\ teach' = line
    /\ LET set == PySetItem(brain, user, teach') IN
       IF set.ok
       THEN /\ brain' = set.val
            /\ taught' = taught \cup {<<user, teach'>>}
            /\ printed' = <<Line("Can you teach me?"),
                            Line("Bot: Got it! I'll remember that")>>
            /\ pc' = "AwaitingInput"
            /\ fileExists' = TRUE
            /\ fileText' = JsonDumpTable(set.val)
            /\ UNCHANGED exc
       ELSE /\ Crash(set.exc, <<Line("Can you teach me?")>>)
            /\ UNCHANGED <<brain, taught, fileExists, fileText>>
    /\ UNCHANGED user

\* lines 24-27, with input() returning line
TeachInput(line) ==
    /\ pc = "Teach"
    /\ stdinLine' = line
    /\ teach' = line
    /\ LET set == PySetItem(brain, user, teach') IN
       IF set.ok
       THEN /\ brain' = set.val
            /\ taught' = taught \cup {<<user, teach'>>}
            /\ printed' = <<Line("Can you teach me?"),
                            Line("Bot: Got it! I'll remember that")>>
            /\ pc' = "AwaitingInput"
            /\ UNCHANGED exc
       ELSE /\ Crash(set.exc, <<Line("Can you teach me?")>>)
            /\ UNCHANGED <<brain, taught>>
    /\ UNCHANGED <<fileExists, fileText, user>>

\* input() at line 15 or line 24 on a closed stream raises EOFError
EndOfInput ==
    /\ pc \in {"AwaitingInput", "Teach"}
    /\ Crash("EOFError",
             <<Line(IF pc = "AwaitingInput" THEN "You:" ELSE "Can you teach me?")>>)
    /\ UNCHANGED <<fileExists, fileText, brain, user, teach, stdinLine, taught>>

Next ==
    \/ Load
    \/ Banner
    \/ \E line \in YouLines : ReadInput(line)
    \/ \E line \in TeachLines : TeachInput(line)
    \/ EndOfInput

Spec == Init /\ [][Next]_vars

-----------------------------------------------------------------------------
(* Line 15 alone, on every short string *)

Alphabet == {"h", "H", "i", " ", "\t"}

Strings == UNION {[1..n -> Alphabet] : n \in 0..MaxStrLen}

\* input("You:") has returned some string
NormInit ==
    /\ fileExists = FALSE
    /\ fileText = <<>>
    /\ brain = PyDict(EmptyMap)
    /\ user = NoStr
    /\ teach = NoStr
    /\ pc = "Normalizing"
    /\ exc = "none"
    /\ stdinLine \in Strings
    /\ printed = <<Line("You:")>>
    /\ taught = {}

\* line 15: user = <the line>.strip().lower()
ApplyNormalize ==
    /\ pc = "Normalizing"
    /\ user' = Normalize(stdinLine)
    /\ pc' = "Normalized"
    /\ UNCHANGED <<fileExists, fileText, brain, teach, exc, stdinLine, printed, taught>>

NormSpec == NormInit /\ [][ApplyNormalize]_vars

-----------------------------------------------------------------------------
(* The session with a user who answers every prompt *)

\* the steps of a session whose input stream is never closed
LiveNext ==
    \/ Load
    \/ Banner
    \/ \E line \in YouLines : ReadInput(line)
    \/ \E line \in TeachLines : TeachInput(line)

\* The interpreter runs the script on; the user types a line at each prompt,
\* and at the "You:" prompt eventually one that is quit.
LiveSpec ==
    /\ Init
    /\ [][LiveNext]_vars
    /\ WF_vars(Load)
    /\ WF_vars(Banner)
    /\ WF_vars(\E line \in YouLines : ReadInput(line))
    /\ WF_vars(\E line \in TeachLines : TeachInput(line))
    /\ SF_vars(\E line \in QuitLines : ReadInput(line))

\* the exit status of the process once it has ended
ExitCode == IF pc = "Exit" THEN 0 ELSE 1

-----------------------------------------------------------------------------
(* Properties *)

\* the last step read a line at the "You:" prompt (lines 15-23)
LastReadAtYou ==
    /\ printed # <<>>
    /\ printed[1] = Line("You:")
    /\ exc # "EOFError"

\* the last step read a line at the "Can you teach me?" prompt (lines 24-27)
LastReadAtTeach ==
    /\ printed # <<>>
    /\ printed[1] = Line("Can you teach me?")
    /\ exc # "EOFError"

\* v is a table of phrase -> response strings
IsTable(v) ==
    /\ v.kind = "dict"
    /\ \A k \in DOMAIN v.map : v.map[k].kind = "str"

IsKey(v, u) == v.kind = "dict" /\ u \in DOMAIN v.map

\* C1: once line 26 has stored response r for phrase p, a line typed at the
\* "You:" prompt that is p in any casing and with any surrounding whitespace
\* is answered with "Bot:" r, and the teach flow is not entered for it.
C1_LookupAfterTeach ==
    \A pr \in taught :
        (LastReadAtYou /\ stdinLine \in Variants(pr[1])) =>
            /\ pc = "AwaitingInput"
            /\ printed = <<Line("You:"), LineWith("Bot:", PyStr(pr[2]))>>

C1_Witness ==
    /\ pc = "AwaitingInput"
    /\ LastReadAtYou
    /\ \E pr \in taught :
          /\ pr[1] = HiWord
          /\ stdinLine \in Variants(pr[1])
          /\ stdinLine # Lower(stdinLine)
          /\ Len(stdinLine) > Len(pr[1])
          /\ printed = <<Line("You:"), LineWith("Bot:", PyStr(pr[2]))>>

\* C2: when the session has reached Exit, the storage file holds the
\* in-memory table: what lines 5-9 of the next session load is brain, with
\* every phrase taught in this session.
C2_SavedAtExit == pc = "Exit" => LoadBrain = Returns(brain)

\* C3: a line typed at the "You:" prompt that is "quit" in any casing and with
\* any surrounding whitespace ends the session at once: nothing but the prompt
\* is written, no exception is raised, and the table is as it was, also when
\* "quit" is a key of the loaded table.
C3_QuitShortCircuits ==
    [][(pc = "AwaitingInput" /\ exc' # "EOFError" /\ stdinLine' \in QuitLines)
          => /\ pc' = "Exit"
             /\ exc' = "none"
             /\ printed' = <<Line("You:")>>
             /\ brain' = brain
             /\ taught' = taught]_vars

C3_Witness ==
    /\ pc = "Exit"
    /\ stdinLine \in QuitLines \ {QuitWord}
    /\ Len(stdinLine) > Len(QuitWord)
    /\ IsKey(brain, QuitWord)

\* C4: end-of-input at either prompt ends the session in the clean Exit state
\* with exit code 0, never in an error state.
C4_EndOfInputExitsCleanly == exc = "EOFError" => (pc = "Exit" /\ ExitCode = 0)

\* C5: with a storage file that is not well-formed JSON (cut short or
\* malformed) the script ends at startup with the parser's exception: brain is
\* never bound and the prompt is never reached.
C5_CorruptStorageIsFatal ==
    (fileExists /\ fileText \in MalformedDocs) =>
        /\ pc \in {"Start", "Error"}
        /\ pc = "Error" => (exc = "JSONDecodeError" /\ ExitCode # 0)
        /\ brain = Unbound
        /\ printed = <<>>

C5_Witness ==
    /\ fileExists
    /\ fileText \in Truncations(DocHi)
    /\ Len(fileText) = 4
    /\ pc = "Error"
    /\ exc = "JSONDecodeError"

\* C6: the session is in the REPL loop (or has left it through quit) only with
\* a table of phrase -> response strings as brain: a list, a number, a string,
\* null or an object with a non-string value is rejected at startup.
C6_OnlyTablesEnterRepl ==
    pc \in {"AwaitingInput", "Teach", "Exit"} => IsTable(brain)

\* C7: every key of the table is trimmed and lowercased, in every state from
\* the load on.
C7_KeysNormalized ==
    brain.kind = "dict" => \A k \in DOMAIN brain.map : Lower(Strip(k)) = k

\* C8: Exit is entered from the "You:" prompt only, and a line typed at the
\* teaching prompt ("quit" included) is stored as the response of the pending
\* phrase and the session is back at AwaitingInput.
C8_TeachTextNeverEndsSession ==
    /\ pc = "Exit" => (printed # <<>> /\ printed[1] = Line("You:"))
    /\ LastReadAtTeach =>
          /\ pc = "AwaitingInput"
          /\ IsKey(brain, user)
          /\ brain.map[user] = PyStr(stdinLine)

\* C9: a line typed at the "You:" prompt that is not quit has one of two
\* outcomes and never an error: the stored response is displayed when the
\* normalized phrase is a key, and otherwise the "don't know" message is
\* displayed and the teaching prompt comes next.
C9_RespondOrTeach ==
    (LastReadAtYou /\ stdinLine \notin QuitLines) =>
        /\ pc # "Error"
        /\ IF IsKey(brain, user)
           THEN /\ pc = "AwaitingInput"
                /\ printed = <<Line("You:"), LineWith("Bot:", brain.map[user])>>
           ELSE /\ pc = "Teach"
                /\ printed = <<Line("You:"), Line("Bot: I don't know what to say")>>

\* C10: without a storage file brain is the empty table, startup raises
\* nothing, and the banner reports 0 memories before the first prompt.
C10_NoFileStartsEmpty ==
    ~fileExists =>
        /\ pc = "Loaded" => brain = PyDict(EmptyMap)
        /\ pc = "Error" => exc = "EOFError"
        /\ (printed # <<>> /\ printed[1].text = "Memories Loaded") =>
              /\ printed[1] = LineWith("Memories Loaded", PyInt(0))
              /\ pc = "AwaitingInput"
        /\ pc # "Start" => brain.kind = "dict"

C10_Witness ==
    /\ ~fileExists
    /\ pc = "AwaitingInput"
    /\ printed # <<>>
    /\ printed[1] = LineWith("Memories Loaded", PyInt(0))

\* C11: normalizing a normalized string changes nothing, for every string:
\* normalize(normalize(s)) = normalize(s); hence the user.lower() of line 16
\* compares the very value line 15 assigned.
C11_NormalizeIdempotent ==
    pc = "Normalized" =>
        /\ Normalize(user) = user
        /\ Lower(user) = user

C11_Witness ==
    /\ pc = "Normalized"
    /\ stdinLine = <<" ", "H", "\t">>
    /\ user = <<"h">>

\* C12: a teach event (line 26 storing) adds exactly one entry to the table:
\* its key is the stripped, lowercased line typed at the "You:" prompt, its
\* value is the line typed at the teaching prompt character for character,
\* and every other entry is as it was.
C12_TeachInsertsExactPair ==
    [][(pc = "Teach" /\ (brain' # brain \/ taught' # taught))
          => /\ brain.kind = "dict"
             /\ user = Lower(Strip(stdinLine))
             /\ user \notin DOMAIN brain.map
             /\ teach' = stdinLine'
             /\ taught' = taught \cup {<<user, stdinLine'>>}
             /\ brain' = PyDict([k \in DOMAIN brain.map \cup {user} |->
                                   IF k = user THEN PyStr(stdinLine') ELSE brain.map[k]])]_vars

C12_Witness ==
    /\ LastReadAtTeach
    /\ pc = "AwaitingInput"
    /\ IsKey(brain, user)
    /\ Cardinality(DOMAIN brain.map) >= 2
    /\ brain.map[user] = PyStr(stdinLine)
    /\ stdinLine # Strip(stdinLine)
    /\ stdinLine # Lower(stdinLine)

\* C13: no step of the script writes the storage file: whether it exists and
\* what it holds are the same after every step as before it.
C13_StorageNeverWritten ==
    [][fileExists' = fileExists /\ fileText' = fileText]_vars

C13_Witness ==
    /\ ~fileExists
    /\ fileText = <<>>
    /\ pc = "Exit"
    /\ taught # {}
    /\ IsKey(brain, HiWord)

\* C14: a line typed at the "You:" prompt whose stripped, lowercased form is
\* already a key of the table is looked up and answered without any change to
\* the table: the same keys with the same responses.
C14_LookupIsPureRead ==
    [][(pc = "AwaitingInput" /\ exc' # "EOFError"
            /\ IsKey(brain, Lower(Strip(stdinLine'))))
          => /\ brain' = brain
             /\ taught' = taught
             /\ pc' \in {"AwaitingInput", "Exit"}]_vars

C14_Witness ==
    /\ LastReadAtYou
    /\ pc = "AwaitingInput"
    /\ IsKey(brain, user)
    /\ Cardinality(DOMAIN brain.map) >= 2
    /\ printed = <<Line("You:"), LineWith("Bot:", brain.map[user])>>
    /\ stdinLine # user

\* C15: once loaded, the table only grows: no step removes a key or changes
\* the response of a key, and the teaching prompt is reached only with a
\* pending phrase that is not a key.
C15_TableOnlyGrows ==
    [][/\ brain.kind = "dict" =>
             /\ brain'.kind = "dict"
             /\ \A k \in DOMAIN brain.map :
                    k \in DOMAIN brain'.map /\ brain'.map[k] = brain.map[k]
       /\ brain.kind \notin {"dict", "unbound"} => brain' = brain
       /\ pc' = "Teach" => ~IsKey(brain', user')]_vars

C15_Witness ==
    /\ fileExists
    /\ fileText = DocHi
    /\ pc = "AwaitingInput"
    /\ taught # {}
    /\ Cardinality(DOMAIN brain.map) = 2
    /\ brain.map[HiWord] = PyStr(<<"Y", "o", " ">>)

\* C16: line 26 never stores under the key "quit": no teach event of the
\* session has "quit" as its phrase, and "quit" is a key of the table only
\* when it is a key of the table in the storage file.
C16_QuitNeverTaught ==
    /\ \A pr \in taught : pr[1] # QuitWord
    /\ IsKey(brain, QuitWord) => (LoadBrain.ok /\ IsKey(LoadBrain.val, QuitWord))
    /\ pc = "Teach" => user # QuitWord

C16_Witness ==
    /\ pc = "Exit"
    /\ stdinLine \in QuitLines
    /\ taught # {}
    /\ brain.kind = "dict"
    /\ QuitWord \notin DOMAIN brain.map

\* C17: with a user who types a line at each prompt, every loop iteration
\* comes back to AwaitingInput: after a line that is not quit (answered or
\* taught), and from the teaching prompt; and after a line that is quit the
\* session reaches Exit.
C17_IterationReturns ==
    /\ (LastReadAtYou /\ stdinLine \notin QuitLines) ~> (pc = "AwaitingInput")
    /\ (pc = "Teach") ~> (pc = "AwaitingInput")
    /\ (LastReadAtYou /\ stdinLine \in QuitLines) ~> (pc = "Exit")

====
